---- MODULE Spec2Model ----
(***************************************************************************)
(* The FNCS broker (src/src/broker.cpp): one event loop over a router      *)
(* socket that registers n_sims simulators, closes synchronisation rounds, *)
(* grants the next simulated time, and fans PUBLISH messages out.  Started  *)
(* with a realtime_interval (argv[2]) it paces the grants against the wall *)
(* clock, time_real being written by the SIGALRM handler.                  *)
(*                                                                         *)
(* One action is one iteration of the loop of main(): the handler of one   *)
(* inbound message, with every send it makes.  Times are fncs::time        *)
(* (unsigned long long); the model keeps the unsigned wrap-around at a     *)
(* small width: values are 0..MaxTime and arithmetic is modulo MaxTime+1,  *)
(* ULLONG_MAX being MaxTime.  Vector positions are 1-based here and        *)
(* 0-based in the code; the ordinal carried by an ACK is the 0-based one.  *)
(***************************************************************************)
EXTENDS Integers, Sequences, FiniteSets

\* ------------------------------------------------------------------ bounds
\* n_sims (argv[1]) ranges over 1..MaxSims
MaxSims == 2
\* fncs::time values are 0..MaxTime; MaxTime stands for ULLONG_MAX
MaxTime == 3
\* a HELLO config names a time_delta of 2..MaxDelta ticks, or none (1 tick)
MaxDelta == 2
\* topics are 1..MaxTopics
MaxTopics == 1
\* the loop is followed for MaxMsgs inbound messages
MaxMsgs == 5
\* ... and for MaxPacedMsgs of them when the broker paces its grants
MaxPacedMsgs == 4
\* realtime_interval (argv[2]) ranges over 0..MaxInterval, 0 when absent
MaxInterval == 1
\* ... and for MaxPeerMsgs messages of peers that follow the protocol
MaxPeerMsgs == 7

\* "1s", the time_delta a HELLO config without one gets, in model ticks
time_delta_default == 1

\* peer identities: one more than the largest n_sims, so that a HELLO from
\* a new identity exists after registration has closed
Ids == 1..(MaxSims + 1)
Topics == 1..MaxTopics
Times == 0..MaxTime
TimeMod == MaxTime + 1
ULLONG_MAX == MaxTime

VARIABLES
    n_sims,          \* how many sims will connect (argv[1])
    do_trace,        \* FNCS_TRACE
    simulators,      \* SimVec: vector of SimulatorState
    name_to_index,   \* SimIndex: identity -> position in simulators
    byes,            \* which sims have disconnected
    n_processing,    \* how many sims are processing a time step
    time_granted,    \* global clock
    realtime_interval, \* argv[2]; 0 when absent
    time_real,       \* wall-clock time since the go-ahead
    pacing,          \* the pacing loop (lines 399-403) in this iteration:
                     \* "none" not entered, "usleep" inside it, "slept" left
    forwarded,       \* history: the positions of the records a PUBLISH was
                     \* forwarded to since they were last sent a grant
    status,          \* "running", "exit_success", "exit_failure", "crashed"
    handled,         \* how many inbound messages the loop has handled
    msg,             \* the inbound message the last iteration handled
    sent             \* what the last iteration sent, in send order

vars == <<n_sims, do_trace, simulators, name_to_index, byes, n_processing,
          time_granted, realtime_interval, time_real, pacing, forwarded,
          status, handled, msg, sent>>

\* ------------------------------------------------------------- data types
SimulatorState(name, delta, subs) ==
    [name |-> name,
     time_requested |-> 0,
     time_delta |-> delta,
     time_last_processed |-> 0,
     processing |-> FALSE,
     messages_pending |-> FALSE,
     subscription_values |-> subs]

\* a text frame holding a decimal number, or text that is no number
NumFrames == [nan : {FALSE}, val : Times] \cup {[nan |-> TRUE, val |-> 0]}

\* a HELLO config chunk: unparsable, or with an optional /time_delta and
\* the topics under /values
Configs ==
    {[ok |-> FALSE, has_delta |-> FALSE, time_delta |-> 0, values |-> {}]}
    \cup [ok : {TRUE}, has_delta : {FALSE}, time_delta : {0},
          values : SUBSET Topics]
    \cup [ok : {TRUE}, has_delta : {TRUE}, time_delta : 2..MaxDelta,
          values : SUBSET Topics]

Message(sender, type, frames) ==
    [sender |-> sender, type |-> type, frames |-> frames]

Outbound(to, type, args) == [to |-> to, type |-> type, args |-> args]

\* fncs::parse_time on a duration text: the number of ticks it denotes
parse_time(d) == d

\* istringstream >> unsigned long long: the number, or on text that is no
\* number 0 (C++11) or the uninitialised local left as it was (C++98)
istringstream_extract(frame) ==
    IF frame.nan THEN Times ELSE {frame.val}

Registered(s) == s \in DOMAIN name_to_index

\* ------------------------------------------------------------------- Init
Init ==
    /\ n_sims \in 1..MaxSims
    /\ do_trace \in BOOLEAN
    /\ simulators = <<>>
    /\ name_to_index = [x \in {} |-> 0]
    /\ byes = {}
    /\ n_processing = 0
    /\ time_granted = 0
    /\ realtime_interval \in 0..MaxInterval
    /\ time_real = 0
    /\ pacing = "none"
    /\ forwarded = {}
    /\ status = "running"
    /\ handled = 0
    /\ msg = Message(0, "none", <<>>)
    /\ sent = <<>>

\* ------------------------------------------------------------- broker_die
\* lines 60-63: repeat the fatal die to all connected sims
RECURSIVE die_loop(_, _)
die_loop(i, sims) ==
    IF i > Len(sims) THEN <<>>
    ELSE <<Outbound(sims[i].name, "DIE", <<>>)>> \o die_loop(i + 1, sims)

broker_die(m) ==
    /\ sent' = die_loop(1, simulators)
    /\ status' = "exit_failure"
    /\ msg' = m
    /\ pacing' = "none"
    /\ UNCHANGED <<n_sims, do_trace, simulators, name_to_index, byes,
                   n_processing, time_granted, time_real>>

\* ------------------------------------------------------------------ HELLO
\* lines 302-309: the go-ahead loop
RECURSIVE ack_loop(_, _, _)
ack_loop(i, n, acc) ==
    IF i > n THEN acc
    ELSE ack_loop(i + 1, n,
           [sims |-> [acc.sims EXCEPT ![i].processing = TRUE],
            sent |-> Append(acc.sent,
                        Outbound(acc.sims[i].name, "ACK", <<i - 1, n>>))])

\* lines 265-274: populate the sim state object and register it
Register(sender, config) ==
    LET delta == IF config.has_delta THEN parse_time(config.time_delta)
                 ELSE parse_time(time_delta_default)
    IN Append(simulators, SimulatorState(sender, delta, config.values))

\* the go-ahead given again whenever at least n_sims have connected
AllConnected_AtLeast(sims) == Len(sims) >= n_sims

\* line 279: if all sims have connected
AllConnected(sims) == Len(sims) = n_sims

Hello(sender, frames) ==
    LET m == Message(sender, "HELLO", frames) IN
    IF Registered(sender) THEN broker_die(m)          \* already connected
    ELSE IF frames = <<>> THEN broker_die(m)          \* missing config frame
    ELSE IF ~frames[1].ok THEN broker_die(m)          \* bad config
    ELSE
      LET pushed == Register(sender, frames[1])
          go == ack_loop(1, n_sims, [sims |-> pushed, sent |-> <<>>])
      IN
      /\ name_to_index' =
            [x \in DOMAIN name_to_index \cup {sender} |->
                IF x = sender THEN Len(simulators) + 1 ELSE name_to_index[x]]
      /\ IF AllConnected(pushed)
         THEN /\ time_real' = 0          \* line 281; the timer is armed
              /\ n_processing' = n_sims
              /\ simulators' = go.sims
              /\ sent' = go.sent
         ELSE /\ simulators' = pushed
              /\ sent' = <<>>
              /\ UNCHANGED <<n_processing, time_real>>
      /\ msg' = m
      /\ pacing' = "none"
      /\ UNCHANGED <<n_sims, do_trace, byes, time_granted, status>>

\* --------------------------------------------------- TIME_REQUEST and BYE
\* lines 345-349: let all sims know that globally we are finished
RECURSIVE bye_loop(_, _, _)
bye_loop(i, n, sims) ==
    IF i > n THEN <<>>
    ELSE <<Outbound(sims[i].name, "BYE", <<>>)>> \o bye_loop(i + 1, n, sims)

\* lines 375-379: the bookkeeping both messages share
Bookkeeping(sims, index, requested, granted) ==
    [sims EXCEPT ![index].time_requested = requested,
                 ![index].time_last_processed = granted,
                 ![index].processing = FALSE]

\* lines 385-392
Actionable(r) ==
    IF r.messages_pending
    THEN (r.time_last_processed + r.time_delta) % TimeMod
    ELSE r.time_requested

\* lines 383-393: vector<fncs::time> time_actionable(n_sims)
TimeActionable(sims, n) == [i \in 1..n |-> Actionable(sims[i])]

\* line 394: *min_element(time_actionable.begin(), time_actionable.end())
MinElement(ta) ==
    CHOOSE t \in {ta[i] : i \in DOMAIN ta} : \A i \in DOMAIN ta : t <= ta[i]

\* lines 419-420: fast forward time last processed
FastForward(r, granted) ==
    LET jump == ((granted - r.time_last_processed) % TimeMod) \div r.time_delta
    IN [r EXCEPT !.time_last_processed =
                    (r.time_last_processed + r.time_delta * jump) % TimeMod]

\* a grant loop that leaves messages_pending as it is
RECURSIVE grant_loop_keeps_pending(_, _, _, _, _, _)
grant_loop_keeps_pending(i, n, granted, ta, trap, acc) ==
    IF i > n THEN acc
    ELSE IF granted = ta[i]
    THEN grant_loop_keeps_pending(i + 1, n, granted, ta, trap,
           [acc EXCEPT !.n = @ + 1,
                       !.sims[i].processing = TRUE,
                       !.sent = Append(@, Outbound(acc.sims[i].name,
                                            "TIME_REQUEST", <<granted>>))])
    ELSE IF acc.sims[i].time_delta = 0
    THEN IF trap THEN [acc EXCEPT !.crashed = TRUE]
         ELSE grant_loop_keeps_pending(i + 1, n, granted, ta, trap, acc)
    ELSE grant_loop_keeps_pending(i + 1, n, granted, ta, trap,
           [acc EXCEPT !.sims[i] = FastForward(@, granted)])

\* lines 406-422.  The division of line 419 by a time_delta of 0 is undefined:
\* with trap the process is killed there (SIGFPE), without it the quotient
\* is 0 (a divide instruction that does not trap).
RECURSIVE grant_loop(_, _, _, _, _, _)
grant_loop(i, n, granted, ta, trap, acc) ==
    IF i > n THEN acc
    ELSE IF granted = ta[i]
    THEN grant_loop(i + 1, n, granted, ta, trap,
           [acc EXCEPT !.n = @ + 1,
                       !.sims[i].processing = TRUE,
                       !.sims[i].messages_pending = FALSE,
                       !.sent = Append(@, Outbound(acc.sims[i].name,
                                            "TIME_REQUEST", <<granted>>))])
    ELSE IF acc.sims[i].time_delta = 0
    THEN IF trap THEN [acc EXCEPT !.crashed = TRUE]
         ELSE grant_loop(i + 1, n, granted, ta, trap, acc)
    ELSE grant_loop(i + 1, n, granted, ta, trap,
           [acc EXCEPT !.sims[i] = FastForward(@, granted)])

\* grants that never wait
MustWait_Never(granted) == FALSE

\* lines 397-399: the grants have to wait for the wall clock
MustWait(granted) == realtime_interval # 0 /\ granted > time_real

\* lines 375-423: bookkeeping, then the round close when all sims are done.
\* When the grants have to wait the handler stays in the loop of lines
\* 399-403 and Dispatch ends it.
Account(m, index, requested, trap) ==
    LET booked == Bookkeeping(simulators, index, requested, time_granted)
        ta == TimeActionable(booked, n_sims)
        granted == MinElement(ta)
        round == grant_loop(1, n_sims, granted, ta, trap,
                    [sims |-> booked, n |-> 0, sent |-> <<>>,
                     crashed |-> FALSE])
    IN
    /\ msg' = m
    /\ IF n_processing - 1 = 0
       THEN /\ time_granted' = granted
            /\ IF MustWait(granted)
               THEN /\ pacing' = "usleep"
                    /\ simulators' = booked
                    /\ n_processing' = 0
                    /\ sent' = <<>>
                    /\ UNCHANGED status
               ELSE /\ pacing' = "none"
                    /\ simulators' = round.sims
                    /\ n_processing' = round.n
                    /\ sent' = round.sent
                    /\ status' = IF round.crashed THEN "crashed" ELSE status
       ELSE /\ pacing' = "none"
            /\ simulators' = booked
            /\ n_processing' = n_processing - 1
            /\ sent' = <<>>
            /\ UNCHANGED <<time_granted, status>>
    /\ UNCHANGED <<n_sims, do_trace, name_to_index, time_real>>

\* whether the round that this message closes divides by a time_delta of 0
\* at line 419
DividesByZero(index, requested) ==
    LET booked == Bookkeeping(simulators, index, requested, time_granted)
        ta == TimeActionable(booked, n_sims)
    IN /\ n_processing - 1 = 0
       /\ \E i \in 1..n_sims :
             ta[i] # MinElement(ta) /\ booked[i].time_delta = 0

\* the outcomes of undefined behaviour: killed there, or carrying on
Traps(undefined) == IF undefined THEN BOOLEAN ELSE {FALSE}

TimeRequest(sender, frames) ==
    LET m == Message(sender, "TIME_REQUEST", frames) IN
    IF ~Registered(sender) THEN broker_die(m)         \* not connected
    ELSE IF frames = <<>> THEN broker_die(m)          \* missing time frame
    ELSE \E requested \in istringstream_extract(frames[1]) :
         \E trap \in Traps(DividesByZero(name_to_index[sender], requested)) :
            /\ Account(m, name_to_index[sender], requested, trap)
            /\ UNCHANGED byes

Bye(sender) ==
    LET m == Message(sender, "BYE", <<>>) IN
    IF ~Registered(sender) THEN broker_die(m)         \* not connected
    ELSE IF Cardinality(byes \cup {sender}) = n_sims
    THEN /\ byes' = byes \cup {sender}
         /\ sent' = bye_loop(1, n_sims, simulators)
         /\ status' = "exit_success"
         /\ msg' = m
         /\ pacing' = "none"
         /\ UNCHANGED <<n_sims, do_trace, simulators, name_to_index,
                        n_processing, time_granted, time_real>>
    ELSE \E trap \in Traps(DividesByZero(name_to_index[sender], ULLONG_MAX)) :
            /\ byes' = byes \cup {sender}
            /\ Account(m, name_to_index[sender], ULLONG_MAX, trap)

\* ---------------------------------------------------------------- PUBLISH
\* a fan-out that also takes the subscriber out of its time step
RECURSIVE publish_loop_completes(_, _, _, _, _, _)
publish_loop_completes(i, n, m, topic, trap, acc) ==
    IF i > n THEN acc
    ELSE IF i > Len(acc.sims)
    THEN IF trap THEN [acc EXCEPT !.crashed = TRUE]
         ELSE publish_loop_completes(i + 1, n, m, topic, trap, acc)
    ELSE IF topic \in acc.sims[i].subscription_values
    THEN publish_loop_completes(i + 1, n, m, topic, trap,
           [acc EXCEPT !.sims[i].messages_pending = TRUE,
                       !.sims[i].processing = ~@,
                       !.sent = Append(@, Outbound(acc.sims[i].name,
                                            "PUBLISH", m.frames))])
    ELSE publish_loop_completes(i + 1, n, m, topic, trap, acc)

\* lines 460-481.  simulators[i] with i past the vector's end (a PUBLISH
\* before registration closed) is undefined: with trap the process is killed
\* at the first such read, without it what is read there matches no topic.
RECURSIVE publish_loop(_, _, _, _, _, _)
publish_loop(i, n, m, topic, trap, acc) ==
    IF i > n THEN acc
    ELSE IF i > Len(acc.sims)
    THEN IF trap THEN [acc EXCEPT !.crashed = TRUE]
         ELSE publish_loop(i + 1, n, m, topic, trap, acc)
    ELSE IF topic \in acc.sims[i].subscription_values
    THEN publish_loop(i + 1, n, m, topic, trap,
           [acc EXCEPT !.sims[i].messages_pending = TRUE,
                       !.sent = Append(@, Outbound(acc.sims[i].name,
                                            "PUBLISH", m.frames))])
    ELSE publish_loop(i + 1, n, m, topic, trap, acc)

Publish(sender, frames) ==
    LET m == Message(sender, "PUBLISH", frames) IN
    IF ~Registered(sender) THEN broker_die(m)         \* not connected
    ELSE IF Len(frames) < 1 THEN broker_die(m)        \* missing topic
    ELSE IF do_trace /\ Len(frames) < 2 THEN broker_die(m)  \* missing value
    ELSE \E trap \in Traps(Len(simulators) < n_sims) :
      LET fan == publish_loop(1, n_sims, m, frames[1], trap,
                    [sims |-> simulators, sent |-> <<>>, crashed |-> FALSE])
      IN
      /\ simulators' = fan.sims
      /\ sent' = fan.sent
      /\ status' = IF fan.crashed THEN "crashed" ELSE status
      /\ msg' = m
      /\ pacing' = "none"
      /\ UNCHANGED <<n_sims, do_trace, name_to_index, byes, n_processing,
                     time_granted, time_real>>

\* -------------------------------------------------------------------- DIE
Die(sender) == broker_die(Message(sender, "DIE", <<>>))

\* ------------------------------------------------------------- TIME_DELTA
TimeDelta(sender, frames) ==
    LET m == Message(sender, "TIME_DELTA", frames) IN
    IF ~Registered(sender) THEN broker_die(m)         \* not connected
    ELSE IF frames = <<>> THEN broker_die(m)          \* missing time frame
    ELSE \E delta \in istringstream_extract(frames[1]) :
            /\ simulators' =
                  [simulators EXCEPT ![name_to_index[sender]].time_delta = delta]
            /\ sent' = <<>>
            /\ msg' = m
            /\ pacing' = "none"
            /\ UNCHANGED <<n_sims, do_trace, name_to_index, byes,
                           n_processing, time_granted, time_real, status>>

\* ------------------------------------------------- unknown message type
Unknown(sender) == broker_die(Message(sender, "OTHER", <<>>))

\* ------------------------------------------- nothing a handler could take
\* lines 166-183: the poll fails, or no message comes out of the socket
NoMessage == broker_die(Message(0, "no_message", <<>>))

\* lines 186-190: the message has no frame at all
NoSender == broker_die(Message(0, "no_sender", <<>>))

\* lines 194-198: the message ends after its sender frame
NoType(sender) == broker_die(Message(sender, "no_type", <<>>))

\* --------------------------------------------------------- the event loop
HelloFrames == {<<>>} \cup {<<c>> : c \in Configs}
NumberFrames == {<<>>} \cup {<<f>> : f \in NumFrames}
\* the value frame is opaque: one value stands for all
PublishFrames ==
    {<<>>} \cup {<<t>> : t \in Topics} \cup {<<t, 0>> : t \in Topics}

\* A handler that exits on its sender check (lines 212, 325, 432, 504) reads
\* no frame after the type: such a message is taken without frames.
FramesFrom(sender, registered, frames) ==
    IF Registered(sender) = registered THEN frames ELSE {<<>>}

\* The code only compares identities for equality (the map and the set are
\* never iterated), so of the identities not yet registered the smallest
\* stands for all of them.
Senders ==
    LET fresh == Ids \ DOMAIN name_to_index
    IN DOMAIN name_to_index
       \cup {s \in fresh : \A other \in fresh : s <= other}

\* lines 162-179: the loop takes the next message while the process lives
Polling ==
    /\ status = "running"
    /\ pacing # "usleep"
    /\ handled < (IF realtime_interval # 0 THEN MaxPacedMsgs ELSE MaxMsgs)
    /\ handled' = handled + 1
    /\ UNCHANGED realtime_interval

\* what the sends of an iteration make of the history: a grant sent to a
\* record clears it, a PUBLISH forwarded to it sets it
History ==
    forwarded' =
       {i \in 1..Len(simulators') :
           /\ \A k \in 1..Len(sent') :
                 ~(/\ sent'[k].type = "TIME_REQUEST"
                   /\ sent'[k].to = simulators'[i].name)
           /\ \/ i \in forwarded
              \/ \E k \in 1..Len(sent') :
                    /\ sent'[k].type = "PUBLISH"
                    /\ sent'[k].to = simulators'[i].name}

RecvHello ==
    /\ Polling
    /\ \E sender \in Senders :
          \E frames \in FramesFrom(sender, FALSE, HelloFrames) :
             Hello(sender, frames)
    /\ History

RecvTimeRequest ==
    /\ Polling
    /\ \E sender \in Senders :
          \E frames \in FramesFrom(sender, TRUE, NumberFrames) :
             TimeRequest(sender, frames)
    /\ History

RecvBye ==
    /\ Polling
    /\ \E sender \in Senders : Bye(sender)
    /\ History

RecvPublish ==
    /\ Polling
    /\ \E sender \in Senders :
          \E frames \in FramesFrom(sender, TRUE, PublishFrames) :
             Publish(sender, frames)
    /\ History

RecvDie ==
    /\ Polling
    /\ \E sender \in Senders : Die(sender)
    /\ History

RecvTimeDelta ==
    /\ Polling
    /\ \E sender \in Senders :
          \E frames \in FramesFrom(sender, TRUE, NumberFrames) :
             TimeDelta(sender, frames)
    /\ History

RecvUnknown ==
    /\ Polling
    /\ \E sender \in Senders : Unknown(sender)
    /\ History

RecvNothing ==
    /\ Polling
    /\ NoMessage
    /\ History

RecvNoSender ==
    /\ Polling
    /\ NoSender
    /\ History

RecvNoType ==
    /\ Polling
    /\ \E sender \in Senders : NoType(sender)
    /\ History

\* lines 399-422: time_real has caught up with time_granted, the loop of
\* usleep is left and the grants go out
Dispatch ==
    /\ status = "running"
    /\ pacing = "usleep"
    /\ ~(time_granted > time_real)
    /\ LET ta == TimeActionable(simulators, n_sims) IN
       \E trap \in Traps(\E i \in 1..n_sims :
                            /\ ta[i] # time_granted
                            /\ simulators[i].time_delta = 0) :
          LET round == grant_loop(1, n_sims, time_granted, ta, trap,
                          [sims |-> simulators, n |-> n_processing,
                           sent |-> <<>>, crashed |-> FALSE])
          IN /\ simulators' = round.sims
             /\ n_processing' = round.n
             /\ sent' = round.sent
             /\ status' = IF round.crashed THEN "crashed" ELSE status
    /\ pacing' = "slept"
    /\ UNCHANGED <<n_sims, do_trace, name_to_index, byes, time_granted,
                   realtime_interval, time_real, handled, msg>>
    /\ History

\* fncs::timer_ft() - time_real_start when the next signal comes, given
\* what it was at the last one: the clock has gone on
timer_ft_since_start(last) == last + 1

\* lines 71-74, the SIGALRM handler, once the timer is armed (lines 280-298).
\* The handler writes a variable that is neither volatile nor atomic; the
\* loop of lines 399-403 calls usleep between two reads of it, and
\* time_real_update has its address taken (line 286), so the compiled loop
\* reads time_real from memory again at every turn.
time_real_update ==
    /\ status = "running"
    /\ realtime_interval # 0
    /\ Len(simulators) >= n_sims
    /\ time_real < MaxTime
    /\ time_real' = timer_ft_since_start(time_real)
    /\ UNCHANGED <<n_sims, do_trace, simulators, name_to_index, byes,
                   n_processing, time_granted, realtime_interval, pacing,
                   forwarded, status, handled, msg, sent>>

Next ==
    \/ RecvHello
    \/ RecvTimeRequest
    \/ RecvBye
    \/ RecvPublish
    \/ RecvDie
    \/ RecvTimeDelta
    \/ RecvUnknown
    \/ RecvNothing
    \/ RecvNoSender
    \/ RecvNoType
    \/ Dispatch
    \/ time_real_update

Spec == Init /\ [][Next]_vars

\* The broker started with a realtime_interval, the timer firing again and
\* again (setitimer with it_interval, lines 289-295) and a handler that
\* sleeps in the loop of lines 399-403 going on once its condition is false.
InitPaced == Init /\ realtime_interval # 0

PacedSpec ==
    /\ InitPaced
    /\ [][Next]_vars
    /\ WF_vars(time_real_update)
    /\ WF_vars(Dispatch)

\* ------------------------------------------ peers that follow the protocol
\* The broker among n_sims simulators that do what a client of the protocol
\* does: each connects once with a well-formed HELLO and then, whenever it
\* holds the go-ahead or a grant and has not said BYE, publishes and ends
\* its step with a TIME_REQUEST or a BYE.  The loop is followed for
\* MaxPeerMsgs of their messages.
PollingPeers ==
    /\ status = "running"
    /\ pacing # "usleep"
    /\ handled < MaxPeerMsgs
    /\ handled' = handled + 1
    /\ UNCHANGED realtime_interval

\* peer p has been sent an ACK or a grant it has not answered, and is there
\* to answer it
Stepping(p) ==
    /\ Registered(p)
    /\ p \notin byes
    /\ simulators[name_to_index[p]].processing

PeerHello ==
    /\ PollingPeers
    /\ Len(simulators) < n_sims
    /\ \E sender \in Senders \ DOMAIN name_to_index :
          \E c \in Configs : c.ok /\ Hello(sender, <<c>>)
    /\ History

PeerPublishes ==
    /\ PollingPeers
    /\ \E p \in Ids :
          /\ Stepping(p)
          /\ \E t \in Topics : Publish(p, <<t, 0>>)
    /\ History

PeerAnswers(p) ==
    /\ PollingPeers
    /\ Stepping(p)
    /\ \/ \E f \in NumFrames : ~f.nan /\ TimeRequest(p, <<f>>)
       \/ Bye(p)
    /\ History

PeersNext ==
    \/ PeerHello
    \/ PeerPublishes
    \/ \E p \in Ids : PeerAnswers(p)
    \/ Dispatch
    \/ time_real_update

\* Every peer that holds a grant and has not said BYE answers it; the timer
\* and the wait of lines 399-403 go on as in PacedSpec.
PeersSpec ==
    /\ Init
    /\ [][PeersNext]_vars
    /\ \A p \in Ids : WF_vars(PeerAnswers(p))
    /\ WF_vars(time_real_update)
    /\ WF_vars(Dispatch)

\* ================================================================ claims
\* What the claims speak of, read off a step of the loop: the state before
\* it, the message it handled (msg') and the state after it.

\* the loop handled a message of this type
Handles(type) == status = "running" /\ handled' # handled /\ msg'.type = type

\* a HELLO that gets past the checks of lines 212-237 and is registered
Admitted ==
    /\ Handles("HELLO")
    /\ msg'.sender \notin DOMAIN name_to_index
    /\ msg'.frames # <<>>
    /\ msg'.frames[1].ok

\* a TIME_REQUEST or BYE that reaches the bookkeeping of lines 375-379
Accounted ==
    /\ Handles("TIME_REQUEST") \/ Handles("BYE")
    /\ msg'.sender \in DOMAIN name_to_index
    /\ msg'.type = "TIME_REQUEST" => msg'.frames # <<>>
    /\ msg'.type = "BYE" => Cardinality(byes \cup {msg'.sender}) # n_sims

\* ... and that brings n_processing to 0
ClosesRound == Accounted /\ n_processing = 1

\* record i right after the bookkeeping of the message of this step (the
\* dispatch that may follow never writes time_requested)
AfterBookkeeping(i) ==
    IF i = name_to_index[msg'.sender]
    THEN [simulators[i] EXCEPT
            !.time_requested = IF msg'.type = "BYE" THEN ULLONG_MAX
                               ELSE simulators'[i].time_requested,
            !.time_last_processed = time_granted,
            !.processing = FALSE]
    ELSE simulators[i]

\* the grant loop runs in this step: at the round close, or after the wait
\* for the wall clock that followed it
Dispatching ==
    \/ ClosesRound /\ pacing' # "usleep"
    \/ pacing = "usleep" /\ pacing' = "slept"

\* record i when the grant loop starts
AtDispatch(i) ==
    IF pacing = "usleep" THEN simulators[i] ELSE AfterBookkeeping(i)

\* a step that sends: the handler of a message, or the end of the wait (the
\* signal handler sends nothing, sent stays what the last handler sent)
Sends == handled' # handled \/ (pacing = "usleep" /\ pacing' = "slept")

\* the loop is between two iterations, not inside a handler
AtBoundary == pacing # "usleep"

\* the actionable time of a record, as the specification defines it
ActionableTime(r) ==
    IF r.messages_pending
    THEN (r.time_last_processed + r.time_delta) % TimeMod
    ELSE r.time_requested

Registry == 1..Len(simulators)

Minimum(S) == CHOOSE t \in S : \A u \in S : t <= u

\* the k-th smallest position of a set of positions
Nth(S, k) == CHOOSE i \in S : Cardinality({j \in S : j < i}) = k - 1

DieToAll(sims) == [i \in 1..Len(sims) |-> Outbound(sims[i].name, "DIE", <<>>)]

\* C1: whenever a round closes, the new time_granted is the minimum, over
\* all records of the registry, of the actionable time right after the
\* closing message's bookkeeping.
C1_GrantIsMinOverRegistry ==
    [][ClosesRound =>
          time_granted' =
             Minimum({ActionableTime(AfterBookkeeping(i)) : i \in Registry})
      ]_vars

\* C2: at every grant dispatch the peers sent TIME_REQUEST(time_granted) are
\* exactly the records whose actionable time is the new time_granted, each
\* of them ends processing with no messages pending, every other record is
\* sent nothing and is not processing, and n_processing is the number of
\* peers granted, at least 1.
C2_DispatchGrantsExactlyTheActionable ==
    [][Dispatching =>
          LET G == {i \in Registry :
                       ActionableTime(AtDispatch(i)) = time_granted'}
          IN /\ Len(sent') = Cardinality(G)
             /\ \A k \in 1..Len(sent') :
                   sent'[k] = Outbound(simulators[Nth(G, k)].name,
                                       "TIME_REQUEST", <<time_granted'>>)
             /\ \A i \in G : /\ simulators'[i].processing
                             /\ ~simulators'[i].messages_pending
             /\ \A i \in Registry \ G : ~simulators'[i].processing
             /\ n_processing' = Cardinality(G)
             /\ n_processing' >= 1
      ]_vars

\* C3: time_granted never decreases, whatever messages arrive.
C3_TimeGrantedNonDecreasing == [][time_granted' >= time_granted]_vars

\* C4: the HELLO that makes the registry hold n_sims records sets
\* n_processing to n_sims, marks every record processing and sends every
\* registered peer one ACK(ordinal, n_sims) in ordinal order, a peer's
\* ordinal being the number of HELLOs admitted before its own; no other
\* step of the loop sends an ACK, before or after.
C4_AckOnceWhenAllConnected ==
    [][LET closing == Admitted /\ Len(simulators) + 1 = n_sims IN
       \* each admission appends one record and nothing else changes the
       \* registry's size: a peer's position is the count of admissions
       \* before its own, plus one, and it keeps it
       /\ Len(simulators') = Len(simulators) + (IF Admitted THEN 1 ELSE 0)
       /\ Admitted => /\ name_to_index'[msg'.sender] = Len(simulators) + 1
                      /\ simulators'[Len(simulators) + 1].name = msg'.sender
       /\ \A p \in DOMAIN name_to_index :
             /\ p \in DOMAIN name_to_index'
             /\ name_to_index'[p] = name_to_index[p]
             /\ simulators'[name_to_index[p]].name = p
       /\ closing =>
             /\ n_processing' = n_sims
             /\ \A i \in 1..Len(simulators') : simulators'[i].processing
             /\ Len(sent') = Len(simulators')
             /\ \A i \in 1..Len(sent') :
                   sent'[i] = Outbound(simulators'[i].name, "ACK",
                      <<name_to_index'[simulators'[i].name] - 1, n_sims>>)
       /\ (~closing /\ Sends) =>
             \A k \in 1..Len(sent') : sent'[k].type # "ACK"
      ]_vars

\* C4 witness: with n_sims = 2 the second HELLO has just sent both ACKs
C4_Witness ==
    /\ msg.type = "HELLO"
    /\ n_sims = 2
    /\ n_processing = 2
    /\ sent = <<Outbound(simulators[1].name, "ACK", <<0, 2>>),
                Outbound(simulators[2].name, "ACK", <<1, 2>>)>>

\* C5: between two iterations of the loop the registry never holds more
\* than n_sims records.
C5_RegistryWithinExpected == AtBoundary => Len(simulators) <= n_sims

\* C6: a PUBLISH(topic, value) from a registered peer is forwarded, in
\* ordinal order, to exactly the records subscribed to the topic, sets
\* messages_pending on exactly those, changes nothing else, and the broker
\* keeps running.
C6_PublishReachesExactlyTheSubscribers ==
    [][(/\ Handles("PUBLISH")
        /\ msg'.sender \in DOMAIN name_to_index
        /\ Len(msg'.frames) = 2)
       =>
          LET S == {i \in Registry :
                       msg'.frames[1] \in simulators[i].subscription_values}
          IN /\ Len(sent') = Cardinality(S)
             /\ \A k \in 1..Len(sent') :
                   sent'[k] = Outbound(simulators[Nth(S, k)].name,
                                       "PUBLISH", msg'.frames)
             /\ Len(simulators') = Len(simulators)
             /\ \A i \in Registry :
                   simulators'[i] =
                      IF i \in S
                      THEN [simulators[i] EXCEPT !.messages_pending = TRUE]
                      ELSE simulators[i]
             /\ status' = "running"
      ]_vars

\* C7: the broker has terminated gracefully exactly when every registered
\* peer has sent BYE (registration having closed); it then has sent one BYE
\* to every registered peer in ordinal order, and it sends no BYE otherwise.
C7_GracefulIffEveryPeerSaidBye ==
    LET all_said_bye == \A i \in Registry : simulators[i].name \in byes IN
    /\ status = "exit_success" =>
          /\ all_said_bye
          /\ Len(sent) = Len(simulators)
          /\ \A i \in Registry :
                sent[i] = Outbound(simulators[i].name, "BYE", <<>>)
    /\ (Len(simulators) >= n_sims /\ all_said_bye) => status = "exit_success"
    /\ status # "exit_success" => \A k \in 1..Len(sent) : sent[k].type # "BYE"

\* C8: a BYE from a peer that is already in byes changes no state and
\* sends nothing.
C8_DuplicateByeChangesNothing ==
    [][(Handles("BYE") /\ msg'.sender \in byes) =>
          /\ UNCHANGED <<simulators, name_to_index, byes, n_processing,
                         time_granted, status>>
          /\ sent' = <<>>
      ]_vars

\* the abort triggers C9 lists, but for the missing frame
OtherTrigger ==
    \/ Handles("DIE")
    \/ Handles("HELLO") /\ msg'.sender \in DOMAIN name_to_index
    \/ /\ \/ Handles("TIME_REQUEST") \/ Handles("BYE")
          \/ Handles("PUBLISH") \/ Handles("TIME_DELTA")
       /\ msg'.sender \notin DOMAIN name_to_index
    \/ Handles("OTHER")

\* a frame the loop reads is missing: the sender, the type, the HELLO
\* config, the time of a TIME_REQUEST or TIME_DELTA, the PUBLISH topic and,
\* when tracing, the PUBLISH value
MissingFrameRead ==
    \/ Handles("no_sender")
    \/ Handles("no_type")
    \/ Handles("HELLO") /\ msg'.frames = <<>>
    \/ Handles("TIME_REQUEST") /\ msg'.frames = <<>>
    \/ Handles("TIME_DELTA") /\ msg'.frames = <<>>
    \/ Handles("PUBLISH") /\ Len(msg'.frames) < (IF do_trace THEN 2 ELSE 1)

\* a frame of the message's wire format is missing: as above, and the
\* PUBLISH value whether tracing or not
MissingFrameOfFormat ==
    \/ MissingFrameRead
    \/ Handles("PUBLISH") /\ Len(msg'.frames) < 2

\* the abort: DIE to every registered peer in ordinal order, exit failure
Aborts ==
    /\ sent' = DieToAll(simulators)
    /\ status' = "exit_failure"
    /\ UNCHANGED <<simulators, name_to_index>>

\* C9: on every abort trigger (DIE from a peer, a second HELLO from a
\* registered identity, a TIME_REQUEST / BYE / PUBLISH / TIME_DELTA from an
\* unregistered identity, a message with a frame of its wire format missing,
\* an unknown type) the broker sends DIE to every registered peer in ordinal
\* order and exits with failure; and no step is taken once it has exited, so
\* it sends no BYE and no grant afterwards.
C9_TriggerAborts ==
    [][/\ (OtherTrigger \/ MissingFrameOfFormat) => Aborts
       /\ status = "running"
      ]_vars

\* What does hold of the abort: the same on every trigger but the PUBLISH
\* whose value frame is missing while tracing is off.
AbortOnFramesRead ==
    [][/\ (OtherTrigger \/ MissingFrameRead) => Aborts
       /\ status = "running"
      ]_vars

\* C10: between two iterations of the loop n_processing is the number of
\* records with processing = true.
C10_CounterMatchesProcessing ==
    AtBoundary =>
       n_processing = Cardinality({i \in Registry : simulators[i].processing})

\* C11: when a grant dispatch starts, no record is still processing: every
\* peer granted in the previous round (or sent the ACK) has completed since.
C11_DispatchAfterAllCompleted ==
    [][ClosesRound => \A i \in Registry : ~AfterBookkeeping(i).processing]_vars

\* C12: between two iterations of the loop every record's
\* time_last_processed is an integer multiple of its time_delta.
C12_LastProcessedMultipleOfDelta ==
    AtBoundary =>
       \A i \in Registry :
          \E k \in Times :
             simulators[i].time_last_processed = k * simulators[i].time_delta

\* C13: between two iterations of the loop no record's time_last_processed
\* is past time_granted.
C13_LastProcessedWithinGranted ==
    AtBoundary =>
       \A i \in Registry : simulators[i].time_last_processed <= time_granted

\* C14: between two iterations of the loop every identity in byes names a
\* record, and the record of every identity in byes has time_requested =
\* ULLONG_MAX.
C14_DepartedRequestMax ==
    (status = "running" /\ AtBoundary) =>
       /\ byes \subseteq {simulators[i].name : i \in Registry}
       /\ \A i \in Registry :
             simulators[i].name \in byes =>
                simulators[i].time_requested = ULLONG_MAX

\* C15: at a grant dispatch every record r that is not granted has a nonzero
\* time_delta and a time_last_processed not past the new time_granted (the
\* unsigned subtraction does not wrap), gets k * time_delta added with
\* k = (time_granted - time_last_processed) div time_delta, and ends with
\* time_last_processed <= time_granted < time_last_processed + time_delta.
C15_FastForwardToLargestMultiple ==
    [][Dispatching =>
          \A i \in Registry :
             LET r == AtDispatch(i)
                 after == simulators'[i].time_last_processed
             IN ActionableTime(r) # time_granted' =>
                   /\ r.time_delta # 0
                   /\ r.time_last_processed <= time_granted'
                   /\ after = r.time_last_processed
                        + ((time_granted' - r.time_last_processed)
                              \div r.time_delta) * r.time_delta
                   /\ after <= time_granted'
                   /\ time_granted' < after + r.time_delta
      ]_vars

\* C17: handling a PUBLISH changes nothing of the coordinator's state but
\* messages_pending of records subscribed to its topic, and sends no grant,
\* no ACK and no BYE.
C17_PublishOnlySetsPending ==
    [][Handles("PUBLISH") =>
          /\ UNCHANGED <<time_granted, n_processing, byes, name_to_index>>
          /\ Len(simulators') = Len(simulators)
          /\ \A i \in Registry :
                \/ simulators'[i] = simulators[i]
                \/ /\ simulators'[i] =
                         [simulators[i] EXCEPT !.messages_pending = TRUE]
                   /\ msg'.frames # <<>>
                   /\ msg'.frames[1] \in simulators[i].subscription_values
          /\ \A k \in 1..Len(sent') :
                sent'[k].type \notin {"TIME_REQUEST", "ACK", "BYE"}
      ]_vars

\* C17 witness: a PUBLISH was forwarded in the middle of a run (the clock
\* has advanced, a peer is processing) and set a subscriber's flag
C17_Witness ==
    /\ msg.type = "PUBLISH"
    /\ status = "running"
    /\ time_granted > 0
    /\ n_processing > 0
    /\ \E i \in Registry :
          /\ simulators[i].messages_pending
          /\ sent = <<Outbound(simulators[i].name, "PUBLISH", msg.frames)>>

\* C18: between two iterations of the loop every record's time_delta is
\* strictly positive.
C18_TimeDeltaPositive ==
    AtBoundary => \A i \in Registry : simulators[i].time_delta > 0

\* C20: a peer that has sent BYE is sent no grant afterwards and is not
\* marked processing again.
C20_NoGrantAfterBye ==
    [][\A i \in Registry :
          (Sends /\ simulators[i].name \in byes) =>
             /\ \A k \in 1..Len(sent') :
                   ~(/\ sent'[k].type = "TIME_REQUEST"
                     /\ sent'[k].to = simulators[i].name)
             /\ simulators'[i].processing => simulators[i].processing
      ]_vars

\* C16: between two iterations of the loop a record's messages_pending is
\* true exactly when a PUBLISH has been forwarded to it since it was last
\* sent a grant (since it registered, if it never was).
C16_PendingIffForwardedSinceStep ==
    AtBoundary =>
       \A i \in Registry : simulators[i].messages_pending <=> i \in forwarded

\* C16 witness: of two records a PUBLISH was forwarded to, one has been
\* granted since and is clear, the other still has its flag
C16_Witness ==
    /\ AtBoundary
    /\ status = "running"
    /\ \E i, j \in Registry :
          /\ simulators[i].messages_pending
          /\ i \in forwarded
          /\ simulators[j].subscription_values # {}
          /\ ~simulators[j].messages_pending
          /\ j \notin forwarded
          /\ sent = <<Outbound(simulators[j].name, "TIME_REQUEST",
                               <<time_granted>>)>>
          /\ time_granted =
                simulators[j].time_last_processed + simulators[j].time_delta

GrantIn(out) == \E k \in 1..Len(out) : out[k].type = "TIME_REQUEST"

C22_GrantWithinRequested ==
    [][Sends =>
          \A k \in 1..Len(sent') :
             sent'[k].type = "TIME_REQUEST" =>
                \A i \in 1..Len(simulators') :
                   simulators'[i].name = sent'[k].to =>
                      sent'[k].args[1] <= simulators'[i].time_requested
      ]_vars

\* a round is open in the running phase: the broker is between two
\* messages and counts peers it still waits for
RoundOpen ==
    /\ status = "running"
    /\ AtBoundary
    /\ Len(simulators) = n_sims
    /\ n_processing # 0

\* C21: rounds make progress.  When every peer that has not said BYE answers
\* each go-ahead and grant it gets, an open round that the loop has gone on
\* in since it was dispatched closes: n_processing returns to 0 and the
\* grants of the next round are sent (or the last BYE ends the co-simulation).
\* No peer that ended its step waits for ever on a peer that has left.  The
\* loop is followed for MaxPeerMsgs messages, so the round is one that is
\* open with messages still to come.
C21_RoundsMakeProgress ==
    (RoundOpen /\ ~GrantIn(sent) /\ handled < MaxPeerMsgs)
       ~> (GrantIn(sent) \/ status # "running" \/ handled = MaxPeerMsgs)

====
